---- MODULE Spec2Model ----
(***************************************************************************)
(* Verification model of myspice: the MNA problem assembler (mna.cpp),     *)
(* the complex Gaussian elimination (mna.cpp), the dense matrix container  *)
(* (matrix.hpp) and the circuit solver (circuit.cpp).                      *)
(*                                                                         *)
(* Numbers.  The program computes in std::complex<double>.  The model      *)
(* computes in exact complex rationals: a rational is <<num, den>> in      *)
(* lowest terms with den > 0, a complex number is [re, im].  Equalities    *)
(* proved here are the exact-arithmetic ones.                              *)
(***************************************************************************)
EXTENDS Integers, Sequences, FiniteSets, TLC

----------------------------------------------------------------------------
(* Exact rational arithmetic (stands for double)                           *)

AbsInt(n) == IF n < 0 THEN -n ELSE n

RECURSIVE Gcd(_, _)
Gcd(a, b) == IF b = 0 THEN a ELSE Gcd(b, a % b)

Norm(n, d) ==
    IF n = 0 THEN <<0, 1>>
    ELSE LET g == Gcd(AbsInt(n), AbsInt(d))
             s == IF d < 0 THEN -1 ELSE 1
         IN  <<s * (n \div g), s * (d \div g)>>

Rat(n) == <<n, 1>>
Frac(n, d) == Norm(n, d)

RNeg(x) == <<-x[1], x[2]>>

RAdd(x, y) ==
    IF x[1] = 0 THEN y
    ELSE IF y[1] = 0 THEN x
    ELSE LET g == Gcd(x[2], y[2])
         IN  Norm(x[1] * (y[2] \div g) + y[1] * (x[2] \div g), (x[2] \div g) * y[2])

RSub(x, y) == RAdd(x, RNeg(y))

RMul(x, y) ==
    IF x[1] = 0 \/ y[1] = 0 THEN <<0, 1>>
    ELSE LET g1 == Gcd(AbsInt(x[1]), y[2])
             g2 == Gcd(AbsInt(y[1]), x[2])
         IN  <<(x[1] \div g1) * (y[1] \div g2), (x[2] \div g2) * (y[2] \div g1)>>

RInv(x) == IF x[1] < 0 THEN <<-x[2], -x[1]>> ELSE <<x[2], x[1]>>

RDiv(x, y) == RMul(x, RInv(y))

RLess(x, y) ==
    LET g == Gcd(x[2], y[2])
    IN  x[1] * (y[2] \div g) < y[1] * (x[2] \div g)

----------------------------------------------------------------------------
(* Exact complex arithmetic (stands for std::complex<double>)              *)

Cx(re, im) == [re |-> re, im |-> im]
CReal(r) == Cx(r, Rat(0))
CZero == CReal(Rat(0))
COne == CReal(Rat(1))
CImagUnit == Cx(Rat(0), Rat(1))

CNeg(x) == Cx(RNeg(x.re), RNeg(x.im))
CAdd(x, y) == Cx(RAdd(x.re, y.re), RAdd(x.im, y.im))
CSub(x, y) == Cx(RSub(x.re, y.re), RSub(x.im, y.im))
CMul(x, y) ==
    IF x.im[1] = 0 /\ y.im[1] = 0 THEN Cx(RMul(x.re, y.re), <<0, 1>>)
    ELSE Cx(RSub(RMul(x.re, y.re), RMul(x.im, y.im)),
            RAdd(RMul(x.re, y.im), RMul(x.im, y.re)))

\* |x|^2; std::abs(x) orders complex numbers exactly as its square does
Abs2(x) == RAdd(RMul(x.re, x.re), RMul(x.im, x.im))

CDiv(x, y) ==
    IF x.im[1] = 0 /\ y.im[1] = 0 THEN Cx(RDiv(x.re, y.re), <<0, 1>>)
    ELSE LET d == Abs2(y)
         IN  Cx(RDiv(RAdd(RMul(x.re, y.re), RMul(x.im, y.im)), d),
                RDiv(RSub(RMul(x.im, y.re), RMul(x.re, y.im)), d))

----------------------------------------------------------------------------
(* Exceptions: an operation that throws yields an exception value, and     *)
(* every later step of the same call chain passes it on unchanged.         *)

\* what() is kept as the sequence of the parts it is concatenated from; a
\* part is [text |-> string]
Throw(type, what) == [exc |-> type, what |-> <<[text |-> what]>>]
IsExc(x) == "exc" \in DOMAIN x

----------------------------------------------------------------------------
(* matrix<T> (matrix.hpp)                                                  *)

\* matrix(int h, int w): zero-initialised
Matrix(h, w) ==
    [h |-> h, w |-> w, m |-> [r \in 0..(h - 1) |-> [c \in 0..(w - 1) |-> CZero]]]

\* the bounds test of operator() and at()
InRange(M, row, col) == ~(row < 0 \/ row >= M.h \/ col < 0 \/ col >= M.w)

\* read through operator()/at()
MatAt(M, row, col) ==
    IF IsExc(M) THEN M
    ELSE IF ~InRange(M, row, col) THEN Throw("out_of_range", "access outside of matrix")
    ELSE M.m[row][col]

\* write through operator()/at()
MatSet(M, row, col, v) ==
    IF IsExc(M) THEN M
    ELSE IF ~InRange(M, row, col) THEN Throw("out_of_range", "access outside of matrix")
    ELSE [M EXCEPT !.m[row][col] = v]

\* replace() that also rejects a start offset at the end of the matrix
replace_StartInside(M, row, col, mat) ==
    IF IsExc(M) THEN M
    ELSE IF IsExc(mat) THEN mat
    ELSE IF row < 0 \/ col < 0
            \/ row >= M.h \/ col >= M.w
            \/ row + mat.h - 1 >= M.h
            \/ col + mat.w - 1 >= M.w
         THEN Throw("out_of_range", "matrix<T>::replace() - out of range")
    ELSE [M EXCEPT !.m = [r \in 0..(M.h - 1) |-> [c \in 0..(M.w - 1) |->
                IF r >= row /\ r < row + mat.h /\ c >= col /\ c < col + mat.w
                THEN mat.m[r - row][c - col]
                ELSE M.m[r][c]]]]

\* matrix::replace
replace(M, row, col, mat) ==
    IF IsExc(M) THEN M
    ELSE IF IsExc(mat) THEN mat
    ELSE IF row < 0 \/ col < 0
            \/ row + mat.h - 1 >= M.h
            \/ col + mat.w - 1 >= M.w
         THEN Throw("out_of_range", "matrix<T>::replace() - out of range")
    ELSE [M EXCEPT !.m = [r \in 0..(M.h - 1) |-> [c \in 0..(M.w - 1) |->
                IF r >= row /\ r < row + mat.h /\ c >= col /\ c < col + mat.w
                THEN mat.m[r - row][c - col]
                ELSE M.m[r][c]]]]

\* matrix::transpose
transpose(M) ==
    IF IsExc(M) THEN M
    ELSE [h |-> M.w, w |-> M.h,
          m |-> [x \in 0..(M.w - 1) |-> [y \in 0..(M.h - 1) |-> M.m[y][x]]]]

join_matrices_horizontal(l, r) ==
    IF IsExc(l) THEN l
    ELSE IF IsExc(r) THEN r
    ELSE IF l.h # r.h
         THEN Throw("runtime_error", "cannot horizontally join matrices of different heights")
    ELSE replace(replace(Matrix(l.h, l.w + r.w), 0, 0, l), 0, l.w, r)

join_matrices_vertical(u, d) ==
    IF IsExc(u) THEN u
    ELSE IF IsExc(d) THEN d
    ELSE IF u.w # d.w
         THEN Throw("runtime_error", "cannot vertically join matrices of different widths")
    ELSE replace(replace(Matrix(u.h + d.h, u.w), 0, 0, u), u.h, 0, d)

----------------------------------------------------------------------------
(* gaussian_elimination (mna.cpp)                                          *)

GaussFailed == "Could not solve equation system (Gaussian elimination failed)"

\* the three row helpers; m is the row function of the matrix
swap_rows(m, a, b) == [m EXCEPT ![a] = m[b], ![b] = m[a]]
add_rows(m, dest, src) ==
    [m EXCEPT ![dest] = [i \in DOMAIN m[dest] |-> CAdd(m[dest][i], m[src][i])]]
multiply_row(m, r, k) ==
    [m EXCEPT ![r] = [i \in DOMAIN m[r] |-> CMul(m[r][i], k)]]

\* the pivot search keeping the smaller modulus
RECURSIVE FindRowMax_Smallest(_, _, _, _, _, _)
FindRowMax_Smallest(m, N, k, i, row_max, max) ==
    IF i >= N THEN [row_max |-> row_max, max |-> max]
    ELSE LET x == Abs2(m[i][k])
         IN  IF RLess(x, max) THEN FindRowMax_Smallest(m, N, k, i + 1, i, x)
             ELSE FindRowMax_Smallest(m, N, k, i + 1, row_max, max)

\* the pivot search of column k, rows i..N-1, with the running maximum
RECURSIVE FindRowMax(_, _, _, _, _, _)
FindRowMax(m, N, k, i, row_max, max) ==
    IF i >= N THEN [row_max |-> row_max, max |-> max]
    ELSE LET x == Abs2(m[i][k])
         IN  IF RLess(max, x) THEN FindRowMax(m, N, k, i + 1, i, x)
             ELSE FindRowMax(m, N, k, i + 1, row_max, max)

\* the reduction with the multiplier v / mat(i, k), not negated
RECURSIVE ReduceBelow_NoNegate(_, _, _, _, _)
ReduceBelow_NoNegate(m, N, k, i, v) ==
    IF i >= N THEN m
    ELSE IF m[i][k] # CZero
         THEN ReduceBelow_NoNegate(add_rows(multiply_row(m, i, CDiv(v, m[i][k])), i, k),
                                   N, k, i + 1, v)
         ELSE ReduceBelow_NoNegate(m, N, k, i + 1, v)

\* the reduction of the rows i..N-1 below the pivot row k
RECURSIVE ReduceBelow(_, _, _, _, _)
ReduceBelow(m, N, k, i, v) ==
    IF i >= N THEN m
    ELSE IF m[i][k] # CZero
         THEN ReduceBelow(add_rows(multiply_row(m, i, CDiv(CNeg(v), m[i][k])), i, k),
                          N, k, i + 1, v)
         ELSE ReduceBelow(m, N, k, i + 1, v)

\* the loop over the columns k..N-1: the reduced rows, or the exception
RECURSIVE RowEchelon(_, _, _)
RowEchelon(m, N, k) ==
    IF k >= N THEN [m |-> m]
    ELSE CHOOSE result \in
            {IF p.max = Rat(0) THEN Throw("runtime_error", GaussFailed)
             ELSE CHOOSE reduced \in
                     {RowEchelon(ReduceBelow(s, N, k, k + 1, s[k][k]), N, k + 1) :
                         s \in {swap_rows(m, p.row_max, k)}} : TRUE :
                p \in {FindRowMax(m, N, k, k + 1, k, Abs2(m[k][k]))}} : TRUE

\* the inner sum of back substitution, j = i..N-1, over the solution so far
RECURSIVE BackSum(_, _, _, _, _, _)
BackSum(m, N, sol, i, j, sum) ==
    IF j >= N THEN sum
    ELSE BackSum(m, N, sol, i, j + 1, CSub(sum, CMul(m[i][j], sol[j])))

\* back substitution, i = N-1 down to 0
RECURSIVE BackSubstitute(_, _, _, _)
BackSubstitute(m, N, sol, i) ==
    IF i < 0 THEN sol
    ELSE BackSubstitute(m, N,
            [sol EXCEPT ![i] = CDiv(BackSum(m, N, sol, i, i, m[i][N]), m[i][i])],
            i - 1)

gaussian_elimination(mat) ==
    IF IsExc(mat) THEN mat
    ELSE IF mat.w # mat.h + 1
         THEN Throw("runtime_error", "Invalid equation system dimensions")
    ELSE CHOOSE result \in
            {IF IsExc(e) THEN e
             ELSE CHOOSE solution \in
                     {[h |-> mat.h, w |-> 1,
                       m |-> [i \in 0..(mat.h - 1) |-> [c \in 0..0 |-> x[i]]]] :
                         x \in {BackSubstitute(e.m, mat.h,
                                    [i \in 0..(mat.h - 1) |-> CZero], mat.h - 1)}} : TRUE :
                e \in {RowEchelon(mat.m, mat.h, 0)}} : TRUE

----------------------------------------------------------------------------
(* mna_problem and mna_solution (mna.hpp, mna.cpp)                         *)
(* A problem is a record of the four lists; nodes are dense indices, a     *)
(* negative index is ground.                                               *)

Max(a, b) == IF a > b THEN a ELSE b

mna_admittance(a, b, Y) == [nodes |-> <<a, b>>, Y |-> Y]
mna_voltage_source(a, b, V) == [nodes |-> <<a, b>>, V |-> V]
mna_current_source(a, b, I) == [nodes |-> <<a, b>>, I |-> I]
mna_opamp(pos, neg, out) ==
    [pos_input_node |-> pos, neg_input_node |-> neg, output_node |-> out]

EmptyProblem ==
    [admittances |-> <<>>, voltage_sources |-> <<>>,
     current_sources |-> <<>>, opamps |-> <<>>]

\* the running maximum over a list of two-terminal elements
RECURSIVE MaxNodePairs(_, _, _)
MaxNodePairs(list, i, max_node) ==
    IF i > Len(list) THEN max_node
    ELSE MaxNodePairs(list, i + 1,
            Max(Max(max_node, list[i].nodes[1]), list[i].nodes[2]))

RECURSIVE MaxNodeOpamps(_, _, _)
MaxNodeOpamps(list, i, max_node) ==
    IF i > Len(list) THEN max_node
    ELSE MaxNodeOpamps(list, i + 1,
            Max(Max(Max(max_node, list[i].pos_input_node), list[i].neg_input_node),
                list[i].output_node))

get_max_node(prob) ==
    MaxNodeOpamps(prob.opamps, 1,
        MaxNodePairs(prob.current_sources, 1,
            MaxNodePairs(prob.voltage_sources, 1,
                MaxNodePairs(prob.admittances, 1, -1))))

\* G(r, c) += v
MatAcc(M, row, col, v) ==
    IF IsExc(M) THEN M
    ELSE IF ~InRange(M, row, col) THEN Throw("out_of_range", "access outside of matrix")
    ELSE [M EXCEPT !.m[row][col] = CAdd(@, v)]

\* the loop over the admittances with only G(first, second) reduced
RECURSIVE BuildG_OneSided(_, _, _)
BuildG_OneSided(G, list, i) ==
    IF i > Len(list) THEN G
    ELSE LET first == list[i].nodes[1]
             second == list[i].nodes[2]
             Y == list[i].Y
             G1 == IF first >= 0 THEN MatAcc(G, first, first, Y) ELSE G
             G2 == IF second >= 0 THEN MatAcc(G1, second, second, Y) ELSE G1
             G3 == IF first >= 0 /\ second >= 0
                   THEN MatAcc(G2, first, second, CNeg(Y))
                   ELSE G2
         IN  BuildG_OneSided(G3, list, i + 1)

\* the loop over the admittances that builds G
RECURSIVE BuildG(_, _, _)
BuildG(G, list, i) ==
    IF i > Len(list) THEN G
    ELSE LET first == list[i].nodes[1]
             second == list[i].nodes[2]
             Y == list[i].Y
             G1 == IF first >= 0 THEN MatAcc(G, first, first, Y) ELSE G
             G2 == IF second >= 0 THEN MatAcc(G1, second, second, Y) ELSE G1
             G3 == IF first >= 0 /\ second >= 0
                   THEN MatAcc(MatAcc(G2, first, second, CNeg(Y)), second, first, CNeg(Y))
                   ELSE G2
         IN  BuildG(G3, list, i + 1)

\* one voltage source's two writes into column k of B
StampVoltageSource(B, vs, k) ==
    LET B1 == IF vs.nodes[1] >= 0 THEN MatSet(B, vs.nodes[1], k, COne) ELSE B
    IN  IF vs.nodes[2] >= 0 THEN MatSet(B1, vs.nodes[2], k, CNeg(COne)) ELSE B1

\* the loop over the voltage sources that builds B (i is the 1-based list
\* position, the column is i - 1)
RECURSIVE BuildBSources(_, _, _)
BuildBSources(B, list, i) ==
    IF i > Len(list) THEN B
    ELSE BuildBSources(StampVoltageSource(B, list[i], i - 1), list, i + 1)

\* the loop over the op-amps that adds their outputs to B, column V + (i-1)
RECURSIVE BuildBOpamps(_, _, _, _)
BuildBOpamps(B, list, i, V) ==
    IF i > Len(list) THEN B
    ELSE BuildBOpamps(
            IF list[i].output_node >= 0
            THEN MatSet(B, list[i].output_node, V + i - 1, COne) ELSE B,
            list, i + 1, V)

\* the loop over the op-amps with the output node in C in place of the
\* negative input
RECURSIVE BuildCOpamps_OutputNode(_, _, _, _)
BuildCOpamps_OutputNode(C, list, i, V) ==
    IF i > Len(list) THEN C
    ELSE LET C1 == IF list[i].pos_input_node >= 0
                   THEN MatSet(C, V + i - 1, list[i].pos_input_node, COne) ELSE C
             C2 == IF list[i].output_node >= 0
                   THEN MatSet(C1, V + i - 1, list[i].output_node, CNeg(COne)) ELSE C1
         IN  BuildCOpamps_OutputNode(C2, list, i + 1, V)

\* the loop over the op-amps that adds their inputs to C, row V + (i-1)
RECURSIVE BuildCOpamps(_, _, _, _)
BuildCOpamps(C, list, i, V) ==
    IF i > Len(list) THEN C
    ELSE LET C1 == IF list[i].pos_input_node >= 0
                   THEN MatSet(C, V + i - 1, list[i].pos_input_node, COne) ELSE C
             C2 == IF list[i].neg_input_node >= 0
                   THEN MatSet(C1, V + i - 1, list[i].neg_input_node, CNeg(COne)) ELSE C1
         IN  BuildCOpamps(C2, list, i + 1, V)

\* the four blocks of A as compute_matrix_A builds them
MatrixG(prob, n) == BuildG(Matrix(n, n), prob.admittances, 1)
MatrixBSources(prob, n) ==
    BuildBSources(Matrix(n, Len(prob.opamps) + Len(prob.voltage_sources)),
                  prob.voltage_sources, 1)
MatrixB(prob, n) ==
    BuildBOpamps(MatrixBSources(prob, n), prob.opamps, 1, Len(prob.voltage_sources))
MatrixC(prob, n) ==
    BuildCOpamps(transpose(MatrixBSources(prob, n)), prob.opamps, 1,
                 Len(prob.voltage_sources))
\* D built as the identity instead of the zero matrix
MatrixD_Identity(prob) ==
    LET m == Len(prob.opamps) + Len(prob.voltage_sources)
    IN  [h |-> m, w |-> m,
         m |-> [r \in 0..(m - 1) |-> [c \in 0..(m - 1) |-> IF r = c THEN COne ELSE CZero]]]

MatrixD(prob) ==
    Matrix(Len(prob.opamps) + Len(prob.voltage_sources),
           Len(prob.opamps) + Len(prob.voltage_sources))

compute_matrix_A(prob, node_count) ==
    join_matrices_vertical(
        join_matrices_horizontal(MatrixG(prob, node_count), MatrixB(prob, node_count)),
        join_matrices_horizontal(MatrixC(prob, node_count), MatrixD(prob)))

\* the loop over the current sources that builds I
RECURSIVE BuildI(_, _, _)
BuildI(I, list, i) ==
    IF i > Len(list) THEN I
    ELSE LET I1 == IF list[i].nodes[1] >= 0
                   THEN MatAcc(I, list[i].nodes[1], 0, CReal(list[i].I)) ELSE I
             I2 == IF list[i].nodes[2] >= 0
                   THEN MatAcc(I1, list[i].nodes[2], 0, CReal(RNeg(list[i].I))) ELSE I1
         IN  BuildI(I2, list, i + 1)

\* the loop over the voltage sources that builds E
RECURSIVE BuildE(_, _, _)
BuildE(E, list, i) ==
    IF i > Len(list) THEN E
    ELSE BuildE(MatSet(E, i - 1, 0, CReal(list[i].V)), list, i + 1)

\* z whose E part has a row per voltage source only
compute_matrix_z_NoOpampRows(prob, node_count) ==
    join_matrices_vertical(
        BuildI(Matrix(node_count, 1), prob.current_sources, 1),
        BuildE(Matrix(Len(prob.voltage_sources), 1), prob.voltage_sources, 1))

compute_matrix_z(prob, node_count) ==
    join_matrices_vertical(
        BuildI(Matrix(node_count, 1), prob.current_sources, 1),
        BuildE(Matrix(Len(prob.opamps) + Len(prob.voltage_sources), 1),
               prob.voltage_sources, 1))

\* mna_solution: the solution vector with the two counts
mna_solution(solution, node_count, vs_count) ==
    [m_solution |-> solution, m_node_count |-> node_count,
     m_voltage_source_count |-> vs_count]

\* mna_problem::solve: the mna_solution, or the exception
mna_solve(prob) ==
    CHOOSE result \in
        {CHOOSE r \in
            {IF IsExc(x) THEN x
             ELSE mna_solution(x, node_count, Len(prob.voltage_sources)) :
                x \in {gaussian_elimination(
                          join_matrices_horizontal(
                              compute_matrix_A(prob, node_count),
                              compute_matrix_z(prob, node_count)))}} : TRUE :
            node_count \in {get_max_node(prob) + 1}} : TRUE

\* voltage() testing only pos against the node count
solution_voltage_ChecksPosOnly(sol, pos, neg) ==
    IF pos >= sol.m_node_count
    THEN Throw("out_of_range", "mna_solution::voltage() invalid node ID")
    ELSE LET vpos == IF pos < 0 THEN CZero ELSE MatAt(sol.m_solution, pos, 0)
             vneg == IF neg < 0 THEN CZero ELSE MatAt(sol.m_solution, neg, 0)
         IN  IF IsExc(vpos) THEN vpos
             ELSE IF IsExc(vneg) THEN vneg
             ELSE CSub(vpos, vneg)

\* mna_solution::voltage
solution_voltage(sol, pos, neg) ==
    IF pos >= sol.m_node_count \/ neg >= sol.m_node_count
    THEN Throw("out_of_range", "mna_solution::voltage() invalid node ID")
    ELSE LET vpos == IF pos < 0 THEN CZero ELSE MatAt(sol.m_solution, pos, 0)
             vneg == IF neg < 0 THEN CZero ELSE MatAt(sol.m_solution, neg, 0)
         IN  IF IsExc(vpos) THEN vpos
             ELSE IF IsExc(vneg) THEN vneg
             ELSE CSub(vpos, vneg)

\* voltage_source_current without the offset of the node potentials
voltage_source_current_NoOffset(sol, id) ==
    IF id < 0 \/ id >= sol.m_voltage_source_count
    THEN Throw("out_of_range", "mna_solution::voltage_source_current() invalid source ID")
    ELSE MatAt(sol.m_solution, id, 0)

\* mna_solution::voltage_source_current
voltage_source_current(sol, id) ==
    IF id < 0 \/ id >= sol.m_voltage_source_count
    THEN Throw("out_of_range", "mna_solution::voltage_source_current() invalid source ID")
    ELSE MatAt(sol.m_solution, sol.m_node_count + id, 0)

\* opamp_current() without the test id < 0
opamp_current_NoLowerTest(sol, id) ==
    IF id >= sol.m_solution.h - sol.m_node_count - sol.m_voltage_source_count
    THEN Throw("out_of_range", "mna_solution::opamp_current() invalid source ID")
    ELSE MatAt(sol.m_solution, sol.m_node_count + sol.m_voltage_source_count + id, 0)

\* mna_solution::opamp_current
opamp_current(sol, id) ==
    IF id < 0 \/ id >= sol.m_solution.h - sol.m_node_count - sol.m_voltage_source_count
    THEN Throw("out_of_range", "mna_solution::opamp_current() invalid source ID")
    ELSE MatAt(sol.m_solution, sol.m_node_count + sol.m_voltage_source_count + id, 0)

----------------------------------------------------------------------------
(* Circuit components (circuit.hpp, circuit.cpp)                           *)

resistor(a, b, R) == [kind |-> "resistor", nodes |-> <<a, b>>, R |-> R]
inductor(a, b, L) == [kind |-> "inductor", nodes |-> <<a, b>>, L |-> L]
capacitor(a, b, C) == [kind |-> "capacitor", nodes |-> <<a, b>>, C |-> C]
voltage_source(a, b, v, ac) ==
    [kind |-> "voltage_source", nodes |-> <<a, b>>, dcV |-> v, acV |-> ac]
current_source(a, b, i, ac) ==
    [kind |-> "current_source", nodes |-> <<a, b>>, dcI |-> i, acI |-> ac]
opamp(pos, neg, out) ==
    [kind |-> "opamp", pos_input_node |-> pos, neg_input_node |-> neg,
     output_node |-> out]
\* an object of the base class itself, or of a subclass the solver does not know
circuit_component == [kind |-> "circuit_component"]

\* the class hierarchy, as the dynamic casts see it
IsPassive(comp) == comp.kind \in {"resistor", "inductor", "capacitor"}
IsBipole(comp) == IsPassive(comp) \/ comp.kind \in {"voltage_source", "current_source"}
IsOpamp(comp) == comp.kind = "opamp"
IsVoltageSource(comp) == comp.kind = "voltage_source"
IsCurrentSource(comp) == comp.kind = "current_source"

\* the resistance that replaces an inductor at omega = 0, 1e-9
InductorDCResistance == Frac(1, 1000000000)

\* passive_component::admittance(omega) of the three passive variants
admittance(comp, omega) ==
    CASE comp.kind = "resistor" -> CReal(RDiv(Rat(1), comp.R))
      [] comp.kind = "inductor" ->
            IF omega = Rat(0) THEN CReal(RDiv(Rat(1), InductorDCResistance))
            ELSE CDiv(COne, CMul(CImagUnit, CReal(RMul(omega, comp.L))))
      [] comp.kind = "capacitor" -> CMul(CImagUnit, CReal(RMul(omega, comp.C)))

----------------------------------------------------------------------------
(* The circuit: std::map<std::string, shared_ptr<circuit_component>>.      *)
(* A reference is its index in Refs, which lists the reference strings in  *)
(* the order std::map iterates them (ascending std::string order); a       *)
(* circuit is a function from a set of such indices to components.         *)

Refs == <<"C1", "I1", "OPA1", "R1", "R2", "R3", "V1", "V2">>
RefIds == 1..Len(Refs)

\* the references of circ at or after index i, in iteration order
RECURSIVE CircuitOrderFrom(_, _)
CircuitOrderFrom(circ, i) ==
    IF i > Len(Refs) THEN <<>>
    ELSE IF i \in DOMAIN circ THEN <<i>> \o CircuitOrderFrom(circ, i + 1)
    ELSE CircuitOrderFrom(circ, i + 1)

\* the sequence a range-for over the circuit visits
CircuitOrder(circ) == CircuitOrderFrom(circ, 1)

----------------------------------------------------------------------------
(* circuit_solver (circuit.hpp, circuit.cpp)                               *)

VARIABLES
    m_circuit,          \* the circuit the solver points at
    m_node_map,         \* label -> dense index
    m_problem,          \* the lowered mna_problem
    m_solution,         \* std::optional<mna_solution>: <<>> or <<solution>>
    m_solution_omega,   \* std::optional<double>: <<>> or <<omega>>
    outcome,            \* how the last call ended: normally, or the exception
    mutated,            \* history: the circuit changed after the last update_node_map
    solved_omega,       \* history: the omega m_solution was computed for
    mutations,          \* history: number of circuit mutations so far
    gauss               \* a direct call of gaussian_elimination: <<>>, or its
                        \* argument mat with its result res (<<>> before the call)

vars == <<m_circuit, m_node_map, m_problem, m_solution, m_solution_omega,
          outcome, mutated, solved_omega, mutations, gauss>>

\* add_node numbering with the counter incremented first
add_node_PreIncrement(st, n) ==
    IF n \in DOMAIN st.map THEN st
    ELSE [map |-> [l \in DOMAIN st.map \cup {n} |->
                      IF l = n THEN st.cnt + 1 ELSE st.map[l]],
          cnt |-> st.cnt + 1]

\* the lambda add_node of update_node_map; st is [map, cnt]
add_node(st, n) ==
    IF n \in DOMAIN st.map THEN st
    ELSE [map |-> [l \in DOMAIN st.map \cup {n} |->
                      IF l = n THEN st.cnt ELSE st.map[l]],
          cnt |-> st.cnt + 1]

\* the loop body registering only the first node of a two-terminal component
AddComponentNodes_FirstOnly(st, comp) ==
    IF IsBipole(comp) THEN add_node(st, comp.nodes[1])
    ELSE IF IsOpamp(comp)
         THEN add_node(add_node(add_node(st, comp.pos_input_node),
                                comp.neg_input_node), comp.output_node)
    ELSE st

\* the body of the loop of update_node_map for one component
AddComponentNodes(st, comp) ==
    IF IsBipole(comp) THEN add_node(add_node(st, comp.nodes[1]), comp.nodes[2])
    ELSE IF IsOpamp(comp)
         THEN add_node(add_node(add_node(st, comp.pos_input_node),
                                comp.neg_input_node), comp.output_node)
    ELSE st

RECURSIVE UpdateNodeMapFrom(_, _, _, _)
UpdateNodeMapFrom(st, circ, order, i) ==
    IF i > Len(order) THEN st
    ELSE UpdateNodeMapFrom(AddComponentNodes(st, circ[order[i]]), circ, order, i + 1)

\* circuit_solver::update_node_map: the new m_node_map
update_node_map(circ) ==
    UpdateNodeMapFrom([map |-> [l \in {0} |-> -1], cnt |-> 0],
                      circ, CircuitOrder(circ), 1).map

\* std::map::at on the node map
NodeMapAt(map, n) ==
    IF n \in DOMAIN map THEN [v |-> map[n]] ELSE Throw("out_of_range", "map::at")

\* the lambda map_node_pair of solve
map_node_pair(map, p) ==
    LET first == NodeMapAt(map, p[1])
        second == NodeMapAt(map, p[2])
    IN  IF IsExc(first) THEN first
        ELSE IF IsExc(second) THEN second
        ELSE [v |-> <<first.v, second.v>>]

\* the loop body lowering the DC amplitude of a source whatever omega is
LowerComponent_AlwaysDC(prob, comp, map, omega) ==
    IF IsPassive(comp)
    THEN LET p == map_node_pair(map, comp.nodes)
         IN  IF IsExc(p) THEN p
             ELSE [prob EXCEPT !.admittances =
                      Append(@, mna_admittance(p.v[1], p.v[2], admittance(comp, omega)))]
    ELSE IF IsOpamp(comp)
    THEN LET pos == NodeMapAt(map, comp.pos_input_node)
             neg == NodeMapAt(map, comp.neg_input_node)
             out == NodeMapAt(map, comp.output_node)
         IN  IF IsExc(pos) THEN pos
             ELSE IF IsExc(neg) THEN neg
             ELSE IF IsExc(out) THEN out
             ELSE [prob EXCEPT !.opamps = Append(@, mna_opamp(pos.v, neg.v, out.v))]
    ELSE IF IsVoltageSource(comp)
    THEN LET x == comp.dcV
             p == map_node_pair(map, comp.nodes)
         IN  IF IsExc(p) THEN p
             ELSE [prob EXCEPT !.voltage_sources =
                      Append(@, mna_voltage_source(p.v[1], p.v[2], x))]
    ELSE IF IsCurrentSource(comp)
    THEN LET x == comp.dcI
             p == map_node_pair(map, comp.nodes)
         IN  IF IsExc(p) THEN p
             ELSE [prob EXCEPT !.current_sources =
                      Append(@, mna_current_source(p.v[1], p.v[2], x))]
    ELSE prob

\* the body of the loop of solve for one component: the problem with the
\* component appended to its list, or the exception of a missing label
LowerComponent(prob, comp, map, omega) ==
    IF IsPassive(comp)
    THEN LET p == map_node_pair(map, comp.nodes)
         IN  IF IsExc(p) THEN p
             ELSE [prob EXCEPT !.admittances =
                      Append(@, mna_admittance(p.v[1], p.v[2], admittance(comp, omega)))]
    ELSE IF IsOpamp(comp)
    THEN LET pos == NodeMapAt(map, comp.pos_input_node)
             neg == NodeMapAt(map, comp.neg_input_node)
             out == NodeMapAt(map, comp.output_node)
         IN  IF IsExc(pos) THEN pos
             ELSE IF IsExc(neg) THEN neg
             ELSE IF IsExc(out) THEN out
             ELSE [prob EXCEPT !.opamps = Append(@, mna_opamp(pos.v, neg.v, out.v))]
    ELSE IF IsVoltageSource(comp)
    THEN LET x == IF omega = Rat(0) THEN comp.dcV ELSE comp.acV
             p == map_node_pair(map, comp.nodes)
         IN  IF IsExc(p) THEN p
             ELSE [prob EXCEPT !.voltage_sources =
                      Append(@, mna_voltage_source(p.v[1], p.v[2], x))]
    ELSE IF IsCurrentSource(comp)
    THEN LET x == IF omega = Rat(0) THEN comp.dcI ELSE comp.acI
             p == map_node_pair(map, comp.nodes)
         IN  IF IsExc(p) THEN p
             ELSE [prob EXCEPT !.current_sources =
                      Append(@, mna_current_source(p.v[1], p.v[2], x))]
    ELSE prob

\* the loop of solve: the problem as the loop leaves it, and the exception
\* that ended the loop early (<<>> when it ran to the end)
RECURSIVE LowerFrom(_, _, _, _, _, _)
LowerFrom(prob, circ, order, i, map, omega) ==
    IF i > Len(order) THEN [prob |-> prob, exc |-> <<>>]
    ELSE LET next == LowerComponent(prob, circ[order[i]], map, omega)
         IN  IF IsExc(next) THEN [prob |-> prob, exc |-> <<next>>]
             ELSE LowerFrom(next, circ, order, i + 1, map, omega)

\* the lists of the problem left as the previous solve filled them
ClearProblem_Keep(prob) == prob

\* the clear() calls without the one of the current sources
ClearProblem_ForgetsCurrentSources(prob) ==
    [prob EXCEPT !.admittances = <<>>, !.voltage_sources = <<>>, !.opamps = <<>>]

\* the four clear() calls that open solve
ClearProblem(prob) ==
    [prob EXCEPT !.admittances = <<>>, !.voltage_sources = <<>>,
                 !.current_sources = <<>>, !.opamps = <<>>]

\* the lowering of solve: m_problem cleared, then filled by the loop
Lower(circ, map, omega) ==
    LowerFrom(ClearProblem(m_problem), circ, CircuitOrder(circ), 1, map, omega)

OperatingPointPrefix == "Could not compute operating point - reason: "

\* solve() letting the solver's exception through as it is
SolveProblem_NoWrap(prob) == mna_solve(prob)

\* the try/catch around m_problem.solve(): a std::runtime_error is rethrown
\* with the prefixed message, any other exception passes through
SolveProblem(prob) ==
    CHOOSE result \in
        {IF IsExc(s) /\ s.exc = "runtime_error"
         THEN [exc |-> "runtime_error",
               what |-> <<[text |-> OperatingPointPrefix]>> \o s.what]
         ELSE s :
            s \in {mna_solve(prob)}} : TRUE

\* the whole of circuit_solver::solve for a given node map: the final
\* m_problem, and the new solution or the exception leaving solve
solve(circ, map, omega) ==
    CHOOSE result \in
        {[prob |-> low.prob,
          res |-> IF low.exc # <<>> THEN low.exc[1] ELSE SolveProblem(low.prob)] :
            low \in {Lower(circ, map, omega)}} : TRUE

\* how a call ended; arg is <<omega>> for solve and <<>> otherwise
Returned(op, arg) == [op |-> op, arg |-> arg, status |-> "ok", what |-> <<>>]
Threw(op, arg, ex) == [op |-> op, arg |-> arg, status |-> ex.exc, what |-> ex.what]
Ended(op, arg, res) == IF IsExc(res) THEN Threw(op, arg, res) ELSE Returned(op, arg)

----------------------------------------------------------------------------
(* Queries of circuit_solver.  They are const: each is a function of the   *)
(* solver's state, yielding the value or the exception.  They read         *)
(* *m_solution and *m_solution_omega and are applied here only in states   *)
(* where both optionals hold a value.                                      *)

\* circuit_solver::voltage(int pos, int neg)
voltage_nodes(pos, neg) ==
    LET p == NodeMapAt(m_node_map, pos)
        n == NodeMapAt(m_node_map, neg)
    IN  IF IsExc(p) THEN p
        ELSE IF IsExc(n) THEN n
        ELSE solution_voltage(m_solution[1], p.v, n.v)

\* voltage() measuring an op-amp between its two inputs
voltage_OpampInputs(comp) ==
    IF IsBipole(comp) THEN voltage_nodes(comp.nodes[1], comp.nodes[2])
    ELSE IF IsOpamp(comp) THEN voltage_nodes(comp.pos_input_node, comp.neg_input_node)
    ELSE Throw("runtime_error", "Cannot measure voltage on component")

\* circuit_solver::voltage(const circuit_component &)
voltage(comp) ==
    IF IsBipole(comp) THEN voltage_nodes(comp.nodes[1], comp.nodes[2])
    ELSE IF IsOpamp(comp) THEN voltage_nodes(comp.output_node, 0)
    ELSE Throw("runtime_error", "Cannot measure voltage on component")

\* the counting loop counting every component before the reference ref,
\* of whatever kind
RECURSIVE CountBefore_AnyKind(_, _, _, _)
CountBefore_AnyKind(order, i, kind, ref) ==
    IF i > Len(order) THEN 0
    ELSE IF order[i] = ref THEN 0
    ELSE 1 + CountBefore_AnyKind(order, i + 1, kind, ref)

\* the counting loops of current(): the number of components of the given
\* kind that the iteration visits before it reaches the reference ref
RECURSIVE CountBefore(_, _, _, _)
CountBefore(order, i, kind, ref) ==
    IF i > Len(order) THEN 0
    ELSE IF m_circuit[order[i]].kind = kind
         THEN IF order[i] = ref THEN 0
              ELSE 1 + CountBefore(order, i + 1, kind, ref)
    ELSE CountBefore(order, i + 1, kind, ref)

\* current() dividing the voltage of a passive by its admittance
current_Divides(ref, comp) ==
    IF IsPassive(comp)
    THEN LET v == voltage(comp)
         IN  IF IsExc(v) THEN v ELSE CDiv(v, admittance(comp, m_solution_omega[1]))
    ELSE IF IsVoltageSource(comp)
    THEN voltage_source_current(m_solution[1],
            CountBefore(CircuitOrder(m_circuit), 1, "voltage_source", ref))
    ELSE IF IsCurrentSource(comp)
    THEN IF m_solution_omega[1] = Rat(0) THEN CReal(RNeg(comp.dcI))
         ELSE CReal(RNeg(comp.acI))
    ELSE IF IsOpamp(comp)
    THEN opamp_current(m_solution[1],
            CountBefore(CircuitOrder(m_circuit), 1, "opamp", ref))
    ELSE Throw("runtime_error", "Cannot measure current through component")

\* circuit_solver::current(const circuit_component &), for the component
\* comp that the circuit binds to the reference ref
current(ref, comp) ==
    IF IsPassive(comp)
    THEN LET v == voltage(comp)
         IN  IF IsExc(v) THEN v ELSE CMul(v, admittance(comp, m_solution_omega[1]))
    ELSE IF IsVoltageSource(comp)
    THEN voltage_source_current(m_solution[1],
            CountBefore(CircuitOrder(m_circuit), 1, "voltage_source", ref))
    ELSE IF IsCurrentSource(comp)
    THEN IF m_solution_omega[1] = Rat(0) THEN CReal(RNeg(comp.dcI))
         ELSE CReal(RNeg(comp.acI))
    ELSE IF IsOpamp(comp)
    THEN opamp_current(m_solution[1],
            CountBefore(CircuitOrder(m_circuit), 1, "opamp", ref))
    ELSE Throw("runtime_error", "Cannot measure current through component")

\* circuit_solver::power(const circuit_component &)
power(ref, comp) ==
    LET v == voltage(comp)
        i == current(ref, comp)
    IN  IF IsExc(v) THEN v
        ELSE IF IsExc(i) THEN i
        ELSE CMul(v, i)

\* the queries by reference string: m_circuit->at(ref), then the query
voltage_ref(ref) ==
    IF ref \notin DOMAIN m_circuit THEN Throw("out_of_range", "map::at")
    ELSE voltage(m_circuit[ref])
current_ref(ref) ==
    IF ref \notin DOMAIN m_circuit THEN Throw("out_of_range", "map::at")
    ELSE current(ref, m_circuit[ref])
power_ref(ref) ==
    IF ref \notin DOMAIN m_circuit THEN Throw("out_of_range", "map::at")
    ELSE power(ref, m_circuit[ref])

\* circuit_solver::get_solution_omega, where the optional holds a value
get_solution_omega == m_solution_omega[1]

----------------------------------------------------------------------------
(* Inputs                                                                  *)

\* largest number of components of a circuit
MaxComponents == 4
\* largest number of mutations of the circuit after the solver was built
MaxMutations == 1

kOhm == Rat(1000)
mA == Frac(1, 1000)
uF == Frac(1, 1000000)

\* the angular frequencies solve is called with: DC, and 1000 rad/s
Omegas == {Rat(0), Rat(1000)}

\* the components a netlist may bind to each reference, <<reference, component>>
Parts ==
    { <<1, capacitor(2, 0, uF)>>,
      <<2, current_source(0, 2, mA, Frac(1, 500))>>,
      <<3, opamp(0, 2, 3)>>,
      <<4, resistor(1, 2, kOhm)>>,
      <<5, resistor(2, 0, kOhm)>>,
      <<5, resistor(2, 3, Rat(10000))>>,
      <<6, resistor(1, 0, kOhm)>>,
      <<6, resistor(1, 0, Rat(2000))>>,
      <<7, voltage_source(1, 0, Rat(5), Rat(1))>>,
      <<7, voltage_source(1, 0, Rat(1), Rat(0))>>,
      <<8, voltage_source(1, 0, Rat(3), Rat(2))>> }

\* the components the caller adds to a circuit whose solver already exists
Spares ==
    { <<1, capacitor(2, 0, uF)>>,
      <<2, current_source(0, 2, mA, Frac(1, 500))>>,
      <<4, resistor(1, 2, kOhm)>>,
      <<7, voltage_source(1, 0, Rat(5), Rat(1))>> }

\* largest dense node index of a problem handed to mna_problem directly
MaxNode == 1
\* largest number of elements of such a problem, over its four lists
MaxElements == 2

\* dense node indices, -1 standing for ground
NodeIds == (-1)..MaxNode

\* the circuit that binds each reference of the part set P to its component
CircuitOf(P) ==
    [r \in {p[1] : p \in P} |-> (CHOOSE p \in P : p[1] = r)[2]]

\* all circuits of at most MaxComponents of the given parts, no reference
\* bound twice
Netlists(parts) ==
    {CircuitOf(P) : P \in {Q \in SUBSET parts :
                              /\ Cardinality(Q) <= MaxComponents
                              /\ \A p, q \in Q : p[1] = q[1] => p = q}}

----------------------------------------------------------------------------
(* Operations                                                              *)

\* circuit_solver::circuit_solver over a circuit
Constructed(circ) ==
    /\ m_circuit = circ
    /\ m_node_map = update_node_map(circ)
    /\ m_problem = EmptyProblem
    /\ m_solution = <<>>
    /\ m_solution_omega = <<>>
    /\ outcome = Returned("construct", <<>>)
    /\ mutated = FALSE
    /\ solved_omega = <<>>
    /\ mutations = 0
    /\ gauss = <<>>

Init == \E circ \in Netlists(Parts) : Constructed(circ)

InitMut == \E circ \in Netlists(Spares) : Constructed(circ)

\* circuit_solver::solve(omega)
Solve(omega) ==
    \E s \in {solve(m_circuit, m_node_map, omega)} :
        /\ m_solution_omega' = <<omega>>
        /\ m_problem' = s.prob
        /\ m_solution' = IF IsExc(s.res) THEN m_solution ELSE <<s.res>>
        /\ solved_omega' = IF IsExc(s.res) THEN solved_omega ELSE <<omega>>
        /\ outcome' = Ended("solve", <<omega>>, s.res)
        /\ UNCHANGED <<m_circuit, m_node_map, mutated, mutations, gauss>>

\* update() recomputing the node map only, whether or not a solution is held
Update_MapOnly ==
    /\ m_node_map' = update_node_map(m_circuit)
    /\ mutated' = FALSE
    /\ outcome' = Returned("update", <<>>)
    /\ UNCHANGED <<m_circuit, m_problem, m_solution, m_solution_omega, solved_omega,
                   mutations, gauss>>

\* circuit_solver::update()
Update ==
    \E map \in {update_node_map(m_circuit)} :
        /\ m_node_map' = map
        /\ mutated' = FALSE
        /\ IF m_solution # <<>>
           THEN \E omega \in {m_solution_omega[1]} :
                \E s \in {solve(m_circuit, map, omega)} :
                    /\ m_solution_omega' = <<omega>>
                    /\ m_problem' = s.prob
                    /\ m_solution' = IF IsExc(s.res) THEN m_solution ELSE <<s.res>>
                    /\ solved_omega' = IF IsExc(s.res) THEN solved_omega ELSE <<omega>>
                    /\ outcome' = Ended("update", <<>>, s.res)
           ELSE /\ outcome' = Returned("update", <<>>)
                /\ UNCHANGED <<m_problem, m_solution, m_solution_omega, solved_omega>>
        /\ UNCHANGED <<m_circuit, mutations, gauss>>

\* the caller binds a reference of the circuit to a component: circ[ref] = comp
AddComponent(ref, comp) ==
    /\ mutations < MaxMutations
    /\ Cardinality(DOMAIN m_circuit \cup {ref}) <= MaxComponents
    /\ IF ref \in DOMAIN m_circuit THEN m_circuit[ref] # comp ELSE TRUE
    /\ m_circuit' = [r \in DOMAIN m_circuit \cup {ref} |->
                        IF r = ref THEN comp ELSE m_circuit[r]]
    /\ mutated' = TRUE
    /\ mutations' = mutations + 1
    /\ outcome' = Returned("add", <<>>)
    /\ UNCHANGED <<m_node_map, m_problem, m_solution, m_solution_omega, solved_omega,
                   gauss>>

\* the caller erases a reference from the circuit: circ.erase(ref)
RemoveComponent(ref) ==
    /\ mutations < MaxMutations
    /\ ref \in DOMAIN m_circuit
    /\ m_circuit' = [r \in DOMAIN m_circuit \ {ref} |-> m_circuit[r]]
    /\ mutated' = TRUE
    /\ mutations' = mutations + 1
    /\ outcome' = Returned("remove", <<>>)
    /\ UNCHANGED <<m_node_map, m_problem, m_solution, m_solution_omega, solved_omega,
                   gauss>>

Next ==
    \/ \E omega \in Omegas : Solve(omega)
    \/ Update

\* a solver over a circuit that does not change once the solver exists
Spec == Init /\ [][Next]_vars

\* scenario (c), the inverting amplifier: V1 (1,0) = 1 V DC, R1 (1,2) = 1 kOhm,
\* R2 (2,3) = 10 kOhm, OPA1 (p=0, n=2, o=3)
ScenarioCParts ==
    <<voltage_source(1, 0, Rat(1), Rat(0)), resistor(1, 2, kOhm),
      resistor(2, 3, Rat(10000)), opamp(0, 2, 3)>>

\* the circuits that bind the components of scenario (c) to four distinct
\* references, whatever their names: every iteration order of the four
ScenarioCBindings ==
    {[r \in {f[k] : k \in DOMAIN ScenarioCParts} |->
         ScenarioCParts[CHOOSE k \in DOMAIN ScenarioCParts : f[k] = r]] :
        f \in {g \in [DOMAIN ScenarioCParts -> RefIds] :
                  \A j, k \in DOMAIN ScenarioCParts : g[j] = g[k] => j = k}}

\* components for circuits of several sources and op-amps: two sources on
\* separate nodes, two voltage followers in cascade, loads, a component of a
\* variant the solver does not know, and a source with both terminals on
\* one node
PartsK ==
    { <<1, resistor(2, 0, kOhm)>>,
      <<2, circuit_component>>,
      <<3, opamp(1, 2, 2)>>,
      <<4, opamp(2, 3, 3)>>,
      <<5, resistor(3, 0, kOhm)>>,
      <<6, resistor(4, 0, Rat(2000))>>,
      <<7, voltage_source(1, 0, Rat(5), Rat(1))>>,
      <<8, voltage_source(4, 0, Rat(3), Rat(2))>>,
      <<8, voltage_source(2, 2, Rat(3), Rat(2))>> }

InitK == \E circ \in Netlists(PartsK) : Constructed(circ)

\* the caller measures by reference on a solver that holds a solution:
\* voltage(ref), current(ref); the queries are const
QueryVoltage(ref) ==
    /\ m_solution # <<>>
    /\ outcome' = Ended("voltage", <<ref>>, voltage_ref(ref))
    /\ UNCHANGED <<m_circuit, m_node_map, m_problem, m_solution, m_solution_omega,
                   mutated, solved_omega, mutations, gauss>>

QueryCurrent(ref) ==
    /\ m_solution # <<>>
    /\ outcome' = Ended("current", <<ref>>, current_ref(ref))
    /\ UNCHANGED <<m_circuit, m_node_map, m_problem, m_solution, m_solution_omega,
                   mutated, solved_omega, mutations, gauss>>

NextK ==
    \/ \E omega \in Omegas : Solve(omega)
    \/ Update
    \/ \E ref \in DOMAIN m_circuit : QueryVoltage(ref)
    \/ \E ref \in DOMAIN m_circuit : QueryCurrent(ref)

\* a solver over a circuit of several sources and op-amps, solved and measured
SpecK == InitK /\ [][NextK]_vars

\* components for circuits measured at any time: passives, the two kinds of
\* source, an op-amp, and a component of a variant the solver does not know
PartsQ ==
    { <<1, capacitor(2, 0, uF)>>,
      <<2, current_source(0, 2, mA, Frac(1, 500))>>,
      <<3, circuit_component>>,
      <<4, resistor(1, 2, kOhm)>>,
      <<5, resistor(2, 0, kOhm)>>,
      <<6, opamp(1, 3, 3)>>,
      <<7, voltage_source(1, 0, Rat(5), Rat(1))>> }

InitQ == \E circ \in Netlists(PartsQ) : Constructed(circ)

\* a call that ended with the termination of the process
Terminated(op, arg) == [op |-> op, arg |-> arg, status |-> "terminated", what |-> <<>>]

\* the exceptions that the members of mna_solution throw
SolutionErrors ==
    { Throw("out_of_range", "mna_solution::voltage() invalid node ID"),
      Throw("out_of_range", "mna_solution::voltage_source_current() invalid source ID"),
      Throw("out_of_range", "mna_solution::opamp_current() invalid source ID"),
      Throw("out_of_range", "access outside of matrix") }

\* operator* and operator-> of a std::optional that holds no value: the
\* behaviour is undefined.  The call may return (a value read from the
\* optional's unused storage), the process may be terminated (a standard
\* library built with assertions), or, where a member of mna_solution then
\* reads that storage, one of its exceptions may leave the call
DerefEmpty(op, arg, errors) ==
    {Returned(op, arg), Terminated(op, arg)} \cup {Threw(op, arg, e) : e \in errors}

\* the ways voltage(comp) can end, whether or not a solution is held
voltage_outcomes(op, arg, comp) ==
    IF m_solution = <<>> /\ (IsBipole(comp) \/ IsOpamp(comp))
    THEN DerefEmpty(op, arg, SolutionErrors)
    ELSE {Ended(op, arg, voltage(comp))}

\* the ways current(comp) can end: a passive, a voltage source and an op-amp
\* read m_solution, a passive and a current source read m_solution_omega
current_outcomes(op, arg, ref, comp) ==
    IF m_solution = <<>> /\ (IsPassive(comp) \/ IsVoltageSource(comp) \/ IsOpamp(comp))
    THEN DerefEmpty(op, arg, SolutionErrors)
    ELSE IF m_solution_omega = <<>> /\ IsCurrentSource(comp)
    THEN DerefEmpty(op, arg, {})
    ELSE {Ended(op, arg, current(ref, comp))}

\* the ways power(comp) can end: voltage(comp) * current(comp), the two
\* operands evaluated in either order
power_outcomes(op, arg, ref, comp) ==
    IF m_solution = <<>> /\ (IsBipole(comp) \/ IsOpamp(comp))
    THEN DerefEmpty(op, arg, SolutionErrors)
    ELSE IF m_solution = <<>>
    THEN {Ended(op, arg, voltage(comp)), Ended(op, arg, current(ref, comp))}
    ELSE {Ended(op, arg, power(ref, comp))}

\* the process has not been terminated
Running == outcome.status # "terminated"

\* voltage(ref), current(ref), power(ref), get_solution() and
\* get_solution_omega() called at any time; the queries are const
CallVoltage(ref) ==
    /\ Running
    /\ outcome' \in voltage_outcomes("voltage", <<ref>>, m_circuit[ref])
    /\ UNCHANGED <<m_circuit, m_node_map, m_problem, m_solution, m_solution_omega,
                   mutated, solved_omega, mutations, gauss>>

CallCurrent(ref) ==
    /\ Running
    /\ outcome' \in current_outcomes("current", <<ref>>, ref, m_circuit[ref])
    /\ UNCHANGED <<m_circuit, m_node_map, m_problem, m_solution, m_solution_omega,
                   mutated, solved_omega, mutations, gauss>>

CallPower(ref) ==
    /\ Running
    /\ outcome' \in power_outcomes("power", <<ref>>, ref, m_circuit[ref])
    /\ UNCHANGED <<m_circuit, m_node_map, m_problem, m_solution, m_solution_omega,
                   mutated, solved_omega, mutations, gauss>>

CallGetSolution ==
    /\ Running
    /\ outcome' \in IF m_solution = <<>> THEN DerefEmpty("get_solution", <<>>, {})
                     ELSE {Returned("get_solution", <<>>)}
    /\ UNCHANGED <<m_circuit, m_node_map, m_problem, m_solution, m_solution_omega,
                   mutated, solved_omega, mutations, gauss>>

CallGetSolutionOmega ==
    /\ Running
    /\ outcome' \in IF m_solution_omega = <<>>
                     THEN DerefEmpty("get_solution_omega", <<>>, {})
                     ELSE {Returned("get_solution_omega", <<>>)}
    /\ UNCHANGED <<m_circuit, m_node_map, m_problem, m_solution, m_solution_omega,
                   mutated, solved_omega, mutations, gauss>>

\* solve(omega) of a process that is still running
SolveRunning(omega) == Running /\ Solve(omega)

NextQ ==
    \/ \E omega \in Omegas : SolveRunning(omega)
    \/ \E ref \in DOMAIN m_circuit : CallVoltage(ref)
    \/ \E ref \in DOMAIN m_circuit : CallCurrent(ref)
    \/ \E ref \in DOMAIN m_circuit : CallPower(ref)
    \/ CallGetSolution
    \/ CallGetSolutionOmega

\* a solver that is solved and asked at any time, with or without a solution
SpecQ == InitQ /\ [][NextQ]_vars

InitC == \E circ \in ScenarioCBindings : Constructed(circ)

\* a solver over scenario (c) under some naming of its components
SpecC == InitC /\ [][Next]_vars

NextMut ==
    \/ \E omega \in Omegas : Solve(omega)
    \/ Update
    \/ \E p \in Spares : AddComponent(p[1], p[2])
    \/ \E ref \in RefIds : RemoveComponent(ref)

\* a solver whose circuit the caller goes on changing
SpecMut == InitMut /\ [][NextMut]_vars

----------------------------------------------------------------------------
(* mna_problem used on its own: a caller fills the four public lists with  *)
(* elements in dense index space, then calls mna_problem::solve and keeps  *)
(* the result.  m_problem and m_solution hold the problem and the result.  *)

ElementCount(prob) ==
    Len(prob.admittances) + Len(prob.voltage_sources)
        + Len(prob.current_sources) + Len(prob.opamps)

InitMna == Constructed(<<>>)

\* emplace_back on one of the lists, before the problem is solved
Emplace(list, elem) ==
    /\ outcome.op # "mna_solve"
    /\ ElementCount(m_problem) < MaxElements
    /\ m_problem' = [m_problem EXCEPT ![list] = Append(@, elem)]
    /\ outcome' = Returned("emplace_back", <<>>)
    /\ UNCHANGED <<m_circuit, m_node_map, m_solution, m_solution_omega,
                   mutated, solved_omega, mutations, gauss>>

EmplaceAdmittance(a, b, Y) == Emplace("admittances", mna_admittance(a, b, Y))
EmplaceVoltageSource(a, b, V) == Emplace("voltage_sources", mna_voltage_source(a, b, V))
EmplaceCurrentSource(a, b, I) == Emplace("current_sources", mna_current_source(a, b, I))
EmplaceOpamp(pos, neg, out) == Emplace("opamps", mna_opamp(pos, neg, out))

\* mna_problem::solve on the problem as filled
MnaSolve ==
    \E s \in {mna_solve(m_problem)} :
        /\ outcome.op # "mna_solve"
        /\ m_solution' = IF IsExc(s) THEN m_solution ELSE <<s>>
        /\ outcome' = Ended("mna_solve", <<>>, s)
        /\ UNCHANGED <<m_circuit, m_node_map, m_problem, m_solution_omega,
                       mutated, solved_omega, mutations, gauss>>

NextMna ==
    \/ \E a, b \in NodeIds : EmplaceAdmittance(a, b, Cx(Rat(1), Rat(1)))
    \/ \E a, b \in NodeIds : EmplaceVoltageSource(a, b, Rat(1))
    \/ \E a, b \in NodeIds : EmplaceCurrentSource(a, b, Rat(1))
    \/ \E pos, neg, out \in NodeIds : EmplaceOpamp(pos, neg, out)
    \/ MnaSolve

SpecMna == InitMna /\ [][NextMna]_vars

----------------------------------------------------------------------------
(* gaussian_elimination on its own: it is handed an N x (N+1) matrix and   *)
(* its result, the N x 1 solution or the exception, is kept.               *)

\* the heights of the systems
GaussDims == 1..3
\* largest number of non-zero entries of a system
MaxNonZero == 4
\* the values of the non-zero entries
NonZeroValues == {COne, CReal(Rat(2)), CImagUnit}

\* the h x w matrix that holds f on the positions of its domain, 0 elsewhere
SparseMatrix(h, w, f) ==
    [h |-> h, w |-> w,
     m |-> [r \in 0..(h - 1) |-> [c \in 0..(w - 1) |->
              IF <<r, c>> \in DOMAIN f THEN f[<<r, c>>] ELSE CZero]]]

\* the sets of at most MaxNonZero positions of an N x (N+1) matrix
Supports(N) ==
    {T \in SUBSET ((0..(N - 1)) \X (0..N)) : Cardinality(T) <= MaxNonZero}

InitGauss ==
    /\ m_circuit = <<>>
    /\ m_node_map = update_node_map(<<>>)
    /\ m_problem = EmptyProblem
    /\ m_solution = <<>>
    /\ m_solution_omega = <<>>
    /\ outcome = Returned("construct", <<>>)
    /\ mutated = FALSE
    /\ solved_omega = <<>>
    /\ mutations = 0
    /\ \E N \in GaussDims : \E S \in Supports(N) : \E f \in [S -> NonZeroValues] :
          gauss = [mat |-> SparseMatrix(N, N + 1, f), res |-> <<>>]

\* the call gaussian_elimination(mat)
Eliminate ==
    /\ gauss.res = <<>>
    /\ \E x \in {gaussian_elimination(gauss.mat)} :
          /\ gauss' = [gauss EXCEPT !.res = <<x>>]
          /\ outcome' = Ended("gaussian_elimination", <<>>, x)
    /\ UNCHANGED <<m_circuit, m_node_map, m_problem, m_solution, m_solution_omega,
                   mutated, solved_omega, mutations>>

NextGauss == Eliminate

SpecGauss == InitGauss /\ [][NextGauss]_vars

----------------------------------------------------------------------------
(* Properties                                                              *)

\* the last call was solve(omega) and it returned normally
SolvedAt(omega) ==
    /\ outcome.op = "solve"
    /\ outcome.arg = <<omega>>
    /\ outcome.status = "ok"

\* the last call was solve and it threw the wrapped Gaussian-elimination error
ThrewSingular ==
    /\ outcome.status = "runtime_error"
    /\ outcome.what = <<[text |-> OperatingPointPrefix], [text |-> GaussFailed]>>

\* scenario (d): V1 (1,0) = 5 V, I1 (0,2) = 1 mA, R1 (1,2) = 1 kOhm, R2 (2,0) = 1 kOhm
ScenarioD ==
    (2 :> current_source(0, 2, mA, Frac(1, 500)))
    @@ (4 :> resistor(1, 2, kOhm))
    @@ (5 :> resistor(2, 0, kOhm))
    @@ (7 :> voltage_source(1, 0, Rat(5), Rat(1)))

\* C1: in scenario (d), after solve(0), the voltage of node 2 relative to
\* ground is 3.0 V
C1_ScenarioD_Node2Is3V ==
    (m_circuit = ScenarioD /\ SolvedAt(Rat(0))) => voltage_nodes(2, 0) = CReal(Rat(3))

\* the circuit consists solely of a voltage source v (first node 1, second
\* node ground) and a resistor r between node 1 and ground
SourceAcrossResistor(v, r) ==
    /\ DOMAIN m_circuit = {v, r}
    /\ v # r
    /\ IsVoltageSource(m_circuit[v])
    /\ m_circuit[v].nodes = <<1, 0>>
    /\ m_circuit[r].kind = "resistor"
    /\ m_circuit[r].nodes \in {<<1, 0>>, <<0, 1>>}

C3_PowerBalance ==
    \A v, r \in RefIds :
        (SolvedAt(Rat(0)) /\ SourceAcrossResistor(v, r)) =>
            /\ ~IsExc(power_ref(v))
            /\ ~IsExc(power_ref(r))
            /\ CAdd(power_ref(v), power_ref(r)) = CZero

C3_Witness ==
    /\ SolvedAt(Rat(0))
    /\ SourceAcrossResistor(8, 6)
    /\ power_ref(6) = CReal(Frac(9, 2000))
    /\ power_ref(8) = CReal(Frac(-9, 2000))

\* the labels a component carries, in the order update_node_map visits them
ComponentLabels(comp) ==
    IF IsBipole(comp) THEN comp.nodes
    ELSE IF IsOpamp(comp)
         THEN <<comp.pos_input_node, comp.neg_input_node, comp.output_node>>
    ELSE <<>>

\* the labels of a circuit in the order its iteration meets them
RECURSIVE LabelSeqFrom(_, _, _)
LabelSeqFrom(circ, order, i) ==
    IF i > Len(order) THEN <<>>
    ELSE ComponentLabels(circ[order[i]]) \o LabelSeqFrom(circ, order, i + 1)

LabelSeq(circ) == LabelSeqFrom(circ, CircuitOrder(circ), 1)
Labels(circ) == {LabelSeq(circ)[i] : i \in DOMAIN LabelSeq(circ)}

\* the position at which the iteration first meets label l
FirstEncounter(circ, l) ==
    CHOOSE i \in DOMAIN LabelSeq(circ) :
        /\ LabelSeq(circ)[i] = l
        /\ \A j \in 1..(i - 1) : LabelSeq(circ)[j] # l

\* every label of the circuit is a key of the node map
NodeMapCovers == Labels(m_circuit) \subseteq DOMAIN m_node_map

\* C4: in every reachable state, whatever mutations, update() and solve()
\* calls led to it, every label of the circuit is a key of the node map and
\* solve has not failed on a missing label
C4_NodeMapAlwaysCovers ==
    /\ NodeMapCovers
    /\ outcome.op \in {"solve", "update"} => outcome.status # "out_of_range"

\* C4 as amended: the node map is recomputed by the constructor and by
\* update() only; while the circuit has not been mutated since then, every
\* label of the circuit is a key of the node map and neither solve nor the
\* solve inside update() fails on a missing label
C4_NodeMapCoversUnlessMutated ==
    ~mutated =>
        /\ NodeMapCovers
        /\ outcome.op \in {"solve", "update"} => outcome.status # "out_of_range"

C4_Witness ==
    /\ mutations > 0
    /\ ~mutated
    /\ outcome.op = "solve"
    /\ outcome.status = "ok"
    /\ Labels(m_circuit) \ {0} # {}

\* C5: whenever the solver holds a solution, the recorded omega is the
\* omega that solution was computed for
C5_OmegaBelongsToSolution ==
    m_solution # <<>> => m_solution_omega = solved_omega

\* the message of the exception names the angular frequency omega
MessageContainsOmega(what, omega) ==
    \E i \in DOMAIN what : what[i] = [number |-> omega]

\* C6: when solve(omega) hits a singular matrix, the exception wraps the
\* solver's error and its message contains omega
C6_DiagnosticContainsOmega ==
    (outcome.op = "solve" /\ outcome.status = "runtime_error") =>
        /\ outcome.what[Len(outcome.what)] = [text |-> GaussFailed]
        /\ Len(outcome.what) > 1
        /\ MessageContainsOmega(outcome.what, outcome.arg[1])

\* C6 as amended: when solve(omega) hits a singular matrix, the exception
\* wraps the solver's error: its message is the fixed prefix followed by the
\* solver's message, and omega is not part of it
C6_DiagnosticIsPrefixedReason ==
    (outcome.op = "solve" /\ outcome.status = "runtime_error") =>
        /\ outcome.what = <<[text |-> OperatingPointPrefix], [text |-> GaussFailed]>>
        /\ ~MessageContainsOmega(outcome.what, outcome.arg[1])

C6_Witness ==
    /\ outcome.op = "solve"
    /\ outcome.arg = <<Rat(1000)>>
    /\ ThrewSingular

\* the value a voltage source contributes at omega
SourceValue(comp, omega) == IF omega = Rat(0) THEN comp.dcV ELSE comp.acV

\* the circuit holds two voltage sources between the same two nodes, in the
\* same orientation, whose values at omega differ
ParallelSources(circ, omega) ==
    \E r1, r2 \in DOMAIN circ :
        /\ r1 # r2
        /\ IsVoltageSource(circ[r1])
        /\ IsVoltageSource(circ[r2])
        /\ circ[r1].nodes = circ[r2].nodes
        /\ SourceValue(circ[r1], omega) # SourceValue(circ[r2], omega)

\* C7: solve on a circuit with two voltage sources of different values in
\* parallel fails with the singular-system error and returns no solution
C7_ParallelSourcesAreSingular ==
    (outcome.op = "solve" /\ ParallelSources(m_circuit, outcome.arg[1])) => ThrewSingular

C7_Witness ==
    /\ outcome.op = "solve"
    /\ ParallelSources(m_circuit, outcome.arg[1])
    /\ Cardinality(DOMAIN m_circuit) > 2
    /\ ThrewSingular

\* C8: after update_node_map, label 0 maps to a negative sentinel and the
\* other labels of the circuit map one-to-one onto 0..N-1, N the number of
\* distinct non-ground labels, in the order the iteration first meets them
C8_NodeMapIsDense ==
    ~mutated =>
        LET nonground == Labels(m_circuit) \ {0}
            N == Cardinality(nonground)
        IN  /\ DOMAIN m_node_map = nonground \cup {0}
            /\ m_node_map[0] < 0
            /\ \A l \in nonground : m_node_map[l] \in 0..(N - 1)
            /\ \A l1, l2 \in nonground : l1 # l2 => m_node_map[l1] # m_node_map[l2]
            /\ {m_node_map[l] : l \in nonground} = 0..(N - 1)
            /\ \A l1, l2 \in nonground :
                  FirstEncounter(m_circuit, l1) < FirstEncounter(m_circuit, l2)
                      => m_node_map[l1] < m_node_map[l2]

C8_Witness ==
    /\ ~mutated
    /\ {1, 2, 3} \subseteq DOMAIN m_node_map
    /\ m_node_map[2] = 0
    /\ m_node_map[3] = 1
    /\ m_node_map[1] = 2

\* the sizes of the problem in m_problem
ProblemN == get_max_node(m_problem) + 1
ProblemV == Len(m_problem.voltage_sources)
ProblemP == Len(m_problem.opamps)

\* the number of rows of column k of M, among those in rows, that hold v
CountInColumn(M, k, rows, v) == Cardinality({r \in rows : M.m[r][k] = v})

\* C9: every voltage-source column k of B has exactly one +1, at the first
\* node, and one -1, at the second node, so that it sums to zero, or a
\* single non-zero entry if one terminal is ground; also for a source whose
\* two terminals are the same non-ground node
C9_SourceColumnsOfB ==
    LET B == MatrixB(m_problem, ProblemN)
        rows == 0..(ProblemN - 1)
    IN  \A k \in 1..ProblemV :
            LET a == m_problem.voltage_sources[k].nodes[1]
                b == m_problem.voltage_sources[k].nodes[2]
                col == k - 1
                nonzero == {r \in rows : B.m[r][col] # CZero}
            IN  /\ (a >= 0 /\ b >= 0) =>
                      /\ B.m[a][col] = COne
                      /\ B.m[b][col] = CNeg(COne)
                      /\ CountInColumn(B, col, rows, COne) = 1
                      /\ CountInColumn(B, col, rows, CNeg(COne)) = 1
                      /\ Cardinality(nonzero) = 2
                /\ (a >= 0 /\ b < 0) => (nonzero = {a} /\ B.m[a][col] = COne)
                /\ (a < 0 /\ b >= 0) => (nonzero = {b} /\ B.m[b][col] = CNeg(COne))

\* C10: A is square of size N+V+P, z has N+V+P rows and one column, and a
\* solution returned by solve has N+V+P rows, the node potentials first,
\* then the voltage-source currents, then the op-amp output currents
C10_SystemDimensions ==
    LET size == ProblemN + ProblemV + ProblemP
        A == compute_matrix_A(m_problem, ProblemN)
        z == compute_matrix_z(m_problem, ProblemN)
    IN  /\ ~IsExc(A) /\ A.h = size /\ A.w = size
        /\ ~IsExc(z) /\ z.h = size /\ z.w = 1
        /\ (outcome.op = "mna_solve" /\ outcome.status = "ok") =>
              LET sol == m_solution[1]
                  x == sol.m_solution
              IN  /\ x.h = size /\ x.w = 1
                  /\ sol.m_node_count = ProblemN
                  /\ sol.m_voltage_source_count = ProblemV
                  /\ \A n \in 0..(ProblemN - 1) :
                        solution_voltage(sol, n, -1) = x.m[n][0]
                  /\ \A k \in 0..(ProblemV - 1) :
                        voltage_source_current(sol, k) = x.m[ProblemN + k][0]
                  /\ \A q \in 0..(ProblemP - 1) :
                        opamp_current(sol, q) = x.m[ProblemN + ProblemV + q][0]

C10_Witness ==
    /\ outcome.op = "mna_solve"
    /\ outcome.status = "ok"
    /\ ProblemN > 0
    /\ ProblemV > 0
    /\ ProblemP > 0
    /\ m_solution[1].m_solution.h = ProblemN + ProblemV + ProblemP

\* the entries in which two matrices of the same size differ
ChangedEntries(M1, M2) ==
    {e \in (0..(M1.h - 1)) \X (0..(M1.w - 1)) : M1.m[e[1]][e[2]] # M2.m[e[1]][e[2]]}

\* G as the loop over the admittances leaves it after its first k elements
GAfter(k) == BuildG(Matrix(ProblemN, ProblemN), SubSeq(m_problem.admittances, 1, k), 1)

\* C11: for any list of admittances, grounded or with both terminals on one
\* node, G is symmetric, and an admittance touching ground changes only a
\* diagonal entry of G
C11_GSymmetricGroundOnDiagonal ==
    LET G == MatrixG(m_problem, ProblemN)
        nodes == 0..(ProblemN - 1)
    IN  /\ ~IsExc(G)
        /\ \A i, j \in nodes : G.m[i][j] = G.m[j][i]
        /\ \A k \in 1..Len(m_problem.admittances) :
              LET a == m_problem.admittances[k].nodes[1]
                  b == m_problem.admittances[k].nodes[2]
                  changed == ChangedEntries(GAfter(k - 1), GAfter(k))
              IN  /\ (a < 0 /\ b >= 0) => changed = {<<b, b>>}
                  /\ (a >= 0 /\ b < 0) => changed = {<<a, a>>}
                  /\ (a < 0 /\ b < 0) => changed = {}

C11_Witness ==
    /\ Len(m_problem.admittances) = 2
    /\ m_problem.admittances[1].nodes = <<0, 1>>
    /\ m_problem.admittances[2].nodes = <<1, -1>>
    /\ MatrixG(m_problem, ProblemN).m[0][1] = CNeg(Cx(Rat(1), Rat(1)))
    /\ MatrixG(m_problem, ProblemN).m[1][0] = CNeg(Cx(Rat(1), Rat(1)))
    /\ MatrixG(m_problem, ProblemN).m[1][1] = Cx(Rat(2), Rat(2))

\* the coefficient of v(c) in the equation v(p) - v(n) = 0, a negative node
\* being ground
VirtualShortCoefficient(p, n, c) ==
    CAdd(IF c = p THEN COne ELSE CZero, IF c = n THEN CNeg(COne) ELSE CZero)

\* C12: for every op-amp p, row V+p of the system encodes
\* v(p_node) - v(n_node) = 0: +1 at p_node and -1 at n_node in its C part
\* (negative nodes skipped), zero elsewhere, a zero D part and a zero
\* right-hand side, for every choice of the nodes, p_node = n_node included
C12_OpampRowIsVirtualShort ==
    LET A == compute_matrix_A(m_problem, ProblemN)
        z == compute_matrix_z(m_problem, ProblemN)
    IN  \A p \in 1..ProblemP :
            LET row == ProblemN + ProblemV + p - 1
                opa == m_problem.opamps[p]
            IN  /\ \A c \in 0..(ProblemN - 1) :
                      A.m[row][c] = VirtualShortCoefficient(opa.pos_input_node,
                                                            opa.neg_input_node, c)
                /\ \A c \in ProblemN..(A.w - 1) : A.m[row][c] = CZero
                /\ z.m[row][0] = CZero

\* sum over j = from..to of m[i][j] * x[j][0]
RECURSIVE RowDot(_, _, _, _, _)
RowDot(m, x, i, from, to) ==
    IF from > to THEN CZero
    ELSE CAdd(CMul(m[i][from], x.m[from][0]), RowDot(m, x, i, from + 1, to))

\* gaussian_elimination was called and returned a solution
Eliminated == gauss # <<>> /\ gauss.res # <<>> /\ ~IsExc(gauss.res[1])

\* C13: for every N x (N+1) matrix [A | b] on which gaussian_elimination
\* does not fail, the N x 1 result x satisfies A x = b, and
\* x[i] = (R[i,N] - sum over j > i of R[i,j] * x[j]) / R[i,i] on the
\* reduced matrix R
C13_EliminationSolvesSystem ==
    Eliminated =>
        LET mat == gauss.mat
            N == mat.h
            x == gauss.res[1]
            R == RowEchelon(mat.m, N, 0).m
        IN  /\ x.h = N /\ x.w = 1
            /\ \A i \in 0..(N - 1) : RowDot(mat.m, x, i, 0, N - 1) = mat.m[i][N]
            /\ \A i \in 0..(N - 1) :
                  x.m[i][0] = CDiv(CSub(R[i][N], RowDot(R, x, i, i + 1, N - 1)), R[i][i])

C13_Witness ==
    /\ Eliminated
    /\ gauss.mat.h = 2
    /\ gauss.mat.m[0][0] = COne
    /\ gauss.mat.m[1][0] = CReal(Rat(2))
    /\ gauss.mat.m[0][1] = CImagUnit
    /\ gauss.mat.m[0][2] = COne
    /\ gauss.res[1].m[0][0] = CZero
    /\ gauss.res[1].m[1][0] = CNeg(CImagUnit)

\* C14: in scenario (c), after solve(0), the voltage of node 3 relative to
\* ground is -10, in whatever order the references of the four components
\* are iterated
C14_ScenarioC_Node3IsMinus10V ==
    /\ (outcome.op = "solve" /\ outcome.arg = <<Rat(0)>>) => outcome.status = "ok"
    /\ SolvedAt(Rat(0)) => voltage_nodes(3, 0) = CReal(Rat(-10))

\* the op-amp is iterated first and the source last, or the other way round
C14_Witness ==
    /\ SolvedAt(Rat(0))
    /\ DOMAIN m_circuit = {1, 2, 3, 8}
    /\ IsVoltageSource(m_circuit[1])
    /\ IsOpamp(m_circuit[2])
    /\ m_circuit[8] = resistor(1, 2, kOhm)
    /\ m_node_map[3] = 2
    /\ voltage_nodes(3, 0) = CReal(Rat(-10))

\* what the first solve(omega) of a solver newly constructed over the
\* circuit computes
FreshSolve(omega) ==
    SolveProblem(LowerFrom(EmptyProblem, m_circuit, CircuitOrder(m_circuit), 1,
                           update_node_map(m_circuit), omega).prob)

\* the last call solved the circuit at omega with success: solve(omega), or
\* update() repeating the solve of a solver that held a solution
ResolvedAt(omega) ==
    \/ SolvedAt(omega)
    \/ /\ outcome.op = "update"
       /\ outcome.status = "ok"
       /\ m_solution # <<>>
       /\ m_solution_omega = <<omega>>

\* C15: whatever solves came before on this solver, a successful solve of
\* the unmodified circuit at omega leaves the solution a new solver's first
\* solve(omega) computes, with the same node map and omega, which are all
\* that the voltage, current and power queries read
C15_ResolveIsDeterministic ==
    \A omega \in Omegas :
        ResolvedAt(omega) =>
            /\ m_solution = <<FreshSolve(omega)>>
            /\ m_solution_omega = <<omega>>
            /\ m_node_map = update_node_map(m_circuit)

\* update() has solved again a circuit that was solved before
C15_Witness ==
    /\ outcome.op = "update"
    /\ ResolvedAt(Rat(1000))
    /\ Len(m_problem.admittances) = 2
    /\ Len(m_problem.current_sources) = 1
    /\ m_solution = <<FreshSolve(Rat(1000))>>

\* the number of components of the circuit that satisfy Is and are iterated
\* before the reference ref
PositionAmong(Is(_), ref) ==
    Cardinality({r \in DOMAIN m_circuit : r < ref /\ Is(m_circuit[r])})

\* C16: while the circuit is as it was solved, the index current(comp) uses
\* for a voltage source is its position among the voltage sources in
\* iteration order and its index in the lowered list, and current(comp) is
\* x[N+k] of that source; for the k-th op-amp current(comp) is x[N+V+k]
C16_BranchIndexIsPosition ==
    m_solution # <<>> =>
        LET sol == m_solution[1]
            x == sol.m_solution
            N == sol.m_node_count
            V == sol.m_voltage_source_count
        IN  \A ref \in DOMAIN m_circuit :
                LET comp == m_circuit[ref]
                IN  /\ IsVoltageSource(comp) =>
                          LET k == PositionAmong(IsVoltageSource, ref)
                          IN  /\ CountBefore(CircuitOrder(m_circuit), 1,
                                              "voltage_source", ref) = k
                              /\ k < Len(m_problem.voltage_sources)
                              /\ m_problem.voltage_sources[k + 1] =
                                    mna_voltage_source(m_node_map[comp.nodes[1]],
                                                       m_node_map[comp.nodes[2]],
                                                       SourceValue(comp, m_solution_omega[1]))
                              /\ current_ref(ref) = x.m[N + k][0]
                    /\ IsOpamp(comp) =>
                          LET k == PositionAmong(IsOpamp, ref)
                          IN  /\ CountBefore(CircuitOrder(m_circuit), 1, "opamp", ref) = k
                              /\ k < Len(m_problem.opamps)
                              /\ m_problem.opamps[k + 1] =
                                    mna_opamp(m_node_map[comp.pos_input_node],
                                              m_node_map[comp.neg_input_node],
                                              m_node_map[comp.output_node])
                              /\ current_ref(ref) = x.m[N + V + k][0]

\* two sources and an op-amp solved at DC, the second source loaded
C16_Witness ==
    /\ SolvedAt(Rat(0))
    /\ DOMAIN m_circuit = {3, 6, 7, 8}
    /\ CountBefore(CircuitOrder(m_circuit), 1, "voltage_source", 8) = 1
    /\ current_ref(7) = CZero
    /\ current_ref(8) = CReal(Frac(-3, 2000))
    /\ current_ref(3) = CZero

\* mna_problem::solve was the last call and returned a solution
MnaSolved == outcome.op = "mna_solve" /\ outcome.status = "ok"

\* the integers the accessors of mna_solution are called with
QueryArgs == (-2)..(MaxNode + MaxElements + 2)

\* the exception is the bounds error std::out_of_range
IsBoundsError(r) == IsExc(r) /\ r.exc = "out_of_range"

\* the potential of dense node n in the solution vector x, ground being 0
Potential(x, n) == IF n < 0 THEN CZero ELSE x.m[n][0]

\* C17: mna_solution::voltage(pos, neg) is x[pos] - x[neg], a negative
\* argument being ground potential zero, and fails with a bounds error
\* whenever pos >= N or neg >= N, for every pair of integers
C17_VoltageOfSolution ==
    MnaSolved =>
        LET sol == m_solution[1]
            x == sol.m_solution
        IN  /\ sol.m_node_count = ProblemN
            /\ \A pos, neg \in QueryArgs :
                  IF pos >= ProblemN \/ neg >= ProblemN
                  THEN IsBoundsError(solution_voltage(sol, pos, neg))
                  ELSE solution_voltage(sol, pos, neg) =
                          CSub(Potential(x, pos), Potential(x, neg))

\* a solved problem of one node and a source, whose slot x[1] is not zero
C17_Witness ==
    /\ MnaSolved
    /\ ProblemN = 1
    /\ ProblemV = 1
    /\ solution_voltage(m_solution[1], 0, -1) = COne
    /\ solution_voltage(m_solution[1], -1, 0) = CNeg(COne)
    /\ IsBoundsError(solution_voltage(m_solution[1], 0, 1))
    /\ m_solution[1].m_solution.m[1][0] # CZero

\* C18: voltage_source_current(k) is x[N+k] exactly when 0 <= k < V and
\* opamp_current(k) is x[N+V+k] exactly when 0 <= k < P; for any other k
\* both fail with a bounds error
C18_BranchCurrentsOfSolution ==
    MnaSolved =>
        LET sol == m_solution[1]
            x == sol.m_solution
        IN  \A k \in QueryArgs :
                /\ IF 0 <= k /\ k < ProblemV
                   THEN voltage_source_current(sol, k) = x.m[ProblemN + k][0]
                   ELSE IsBoundsError(voltage_source_current(sol, k))
                /\ IF 0 <= k /\ k < ProblemP
                   THEN opamp_current(sol, k) = x.m[ProblemN + ProblemV + k][0]
                   ELSE IsBoundsError(opamp_current(sol, k))

\* a solved problem of a source and an op-amp: opamp_current(-1) would be
\* the source's slot and voltage_source_current(1) the op-amp's
C18_Witness ==
    /\ MnaSolved
    /\ ProblemN > 0
    /\ ProblemV = 1
    /\ ProblemP = 1
    /\ IsBoundsError(opamp_current(m_solution[1], -1))
    /\ IsBoundsError(voltage_source_current(m_solution[1], 1))
    /\ opamp_current(m_solution[1], 0) = m_solution[1].m_solution.m[ProblemN + 1][0]

\* the error of a query the component does not support: std::runtime_error
\* with the message of the measurement
QueryUnsupported(r, what) == r = Throw("runtime_error", what)

\* the last call was a query
Queried == outcome.op \in {"voltage", "current"}

\* what the queries return on each variant, in a state that holds a solution
QueryResults ==
    m_solution # <<>> =>
        \A ref \in DOMAIN m_circuit :
            LET comp == m_circuit[ref]
                sol == m_solution[1]
            IN  /\ IsBipole(comp) =>
                      voltage_ref(ref) = solution_voltage(sol, m_node_map[comp.nodes[1]],
                                                          m_node_map[comp.nodes[2]])
                /\ IsOpamp(comp) =>
                      voltage_ref(ref) = solution_voltage(sol, m_node_map[comp.output_node],
                                                          m_node_map[0])
                /\ (~IsBipole(comp) /\ ~IsOpamp(comp)) =>
                      /\ QueryUnsupported(voltage_ref(ref),
                                          "Cannot measure voltage on component")
                      /\ QueryUnsupported(current_ref(ref),
                                          "Cannot measure current through component")
                      /\ (Queried /\ outcome.arg = <<ref>>) =>
                            outcome.status = "runtime_error"

SourceCurrent(comp, omega) == IF omega = Rat(0) THEN comp.dcI ELSE comp.acI

\* C20: for every current source and every omega, the amplitude solve(omega)
\* lowers is I_dc when omega = 0 and I_ac otherwise, likewise V_dc / V_ac
\* for a voltage source, and after that solve current(comp) of the current
\* source is the negation of the lowered amplitude
C20_LoweredAmplitudes ==
    outcome.op = "solve" =>
        LET omega == outcome.arg[1]
        IN  \A ref \in DOMAIN m_circuit :
                LET comp == m_circuit[ref]
                IN  /\ IsCurrentSource(comp) =>
                          LET k == PositionAmong(IsCurrentSource, ref)
                          IN  /\ k < Len(m_problem.current_sources)
                              /\ m_problem.current_sources[k + 1].I =
                                    SourceCurrent(comp, omega)
                              /\ current_ref(ref) =
                                    CReal(RNeg(m_problem.current_sources[k + 1].I))
                    /\ IsVoltageSource(comp) =>
                          LET k == PositionAmong(IsVoltageSource, ref)
                          IN  /\ k < Len(m_problem.voltage_sources)
                              /\ m_problem.voltage_sources[k + 1].V =
                                    SourceValue(comp, omega)

\* scenario (d) solved at 1000 rad/s: the AC amplitudes were lowered
C20_Witness ==
    /\ SolvedAt(Rat(1000))
    /\ m_circuit = ScenarioD
    /\ m_problem.current_sources[1].I = Frac(1, 500)
    /\ m_problem.voltage_sources[1].V = Rat(1)
    /\ current_ref(2) = CReal(Frac(-1, 500))

\* C21: when the problem has no node but ground (N = 0), solve returns an
\* empty solution without error if M = V + P = 0 and fails with the
\* singular-system error if M > 0; the assembly and the joins of the
\* zero-sized blocks raise no bounds or dimension error
C21_GroundOnlyProblem ==
    ProblemN = 0 =>
        LET A == compute_matrix_A(m_problem, 0)
            z == compute_matrix_z(m_problem, 0)
            M == ProblemV + ProblemP
        IN  /\ ~IsExc(A) /\ A.h = M /\ A.w = M
            /\ ~IsExc(z) /\ z.h = M /\ z.w = 1
            /\ ~IsExc(join_matrices_horizontal(A, z))
            /\ outcome.op = "mna_solve" =>
                  IF M = 0
                  THEN /\ outcome.status = "ok"
                       /\ m_solution[1].m_solution.h = 0
                       /\ m_solution[1].m_node_count = 0
                  ELSE /\ outcome.status = "runtime_error"
                       /\ outcome.what = <<[text |-> GaussFailed]>>
                       /\ m_solution = <<>>

\* a voltage source and an op-amp, every terminal on ground, were solved
C21_Witness ==
    /\ outcome.op = "mna_solve"
    /\ ProblemN = 0
    /\ ProblemV = 1
    /\ ProblemP = 1
    /\ outcome.status = "runtime_error"

\* the number of components of the circuit that satisfy Is
CountOf(Is(_)) == Cardinality({r \in DOMAIN m_circuit : Is(m_circuit[r])})

\* C22: after any sequence of solve(omega) calls, successful or failing, on
\* an unmodified circuit, the solver's problem holds exactly one admittance
\* per passive component, one voltage source per voltage source, one current
\* source per current source and one op-amp per op-amp, each in circuit
\* iteration order
C22_ProblemMirrorsCircuit ==
    m_solution_omega # <<>> =>
        LET omega == m_solution_omega[1]
        IN  /\ Len(m_problem.admittances) = CountOf(IsPassive)
            /\ Len(m_problem.voltage_sources) = CountOf(IsVoltageSource)
            /\ Len(m_problem.current_sources) = CountOf(IsCurrentSource)
            /\ Len(m_problem.opamps) = CountOf(IsOpamp)
            /\ \A ref \in DOMAIN m_circuit :
                  LET comp == m_circuit[ref]
                  IN  /\ IsPassive(comp) =>
                            m_problem.admittances[PositionAmong(IsPassive, ref) + 1] =
                                mna_admittance(m_node_map[comp.nodes[1]],
                                               m_node_map[comp.nodes[2]],
                                               admittance(comp, omega))
                      /\ IsVoltageSource(comp) =>
                            m_problem.voltage_sources[PositionAmong(IsVoltageSource, ref) + 1] =
                                mna_voltage_source(m_node_map[comp.nodes[1]],
                                                   m_node_map[comp.nodes[2]],
                                                   SourceValue(comp, omega))
                      /\ IsCurrentSource(comp) =>
                            m_problem.current_sources[PositionAmong(IsCurrentSource, ref) + 1] =
                                mna_current_source(m_node_map[comp.nodes[1]],
                                                   m_node_map[comp.nodes[2]],
                                                   SourceCurrent(comp, omega))
                      /\ IsOpamp(comp) =>
                            m_problem.opamps[PositionAmong(IsOpamp, ref) + 1] =
                                mna_opamp(m_node_map[comp.pos_input_node],
                                          m_node_map[comp.neg_input_node],
                                          m_node_map[comp.output_node])

\* a solve that failed after one that succeeded, on a circuit of four parts
C22_Witness ==
    /\ outcome.op = "solve"
    /\ outcome.status = "runtime_error"
    /\ m_solution # <<>>
    /\ solved_omega # m_solution_omega
    /\ Cardinality(DOMAIN m_circuit) = 4
    /\ Len(m_problem.admittances) = 3
    /\ Len(m_problem.current_sources) = 1

\* the rows as the elimination loop holds them when it reaches column stop,
\* or the exception that ended it before
RECURSIVE ReducedUpTo(_, _, _, _)
ReducedUpTo(m, N, k, stop) ==
    IF k >= stop THEN [m |-> m]
    ELSE LET p == FindRowMax(m, N, k, k + 1, k, Abs2(m[k][k]))
         IN  IF p.max = Rat(0) THEN Throw("runtime_error", GaussFailed)
             ELSE ReducedUpTo(ReduceBelow(swap_rows(m, p.row_max, k), N, k, k + 1,
                                          m[p.row_max][k]),
                              N, k + 1, stop)

\* column k of the rows k..N-1 of m is zero
ZeroColumn(m, N, k) == \A r \in k..(N - 1) : m[r][k] = CZero

\* C23: at every column k the row swapped into position k, over the full
\* width, has the largest modulus of column k among the rows k..N-1;
\* the elimination fails with the singular-system error exactly when that
\* modulus is zero; when it completes, every diagonal entry that back
\* substitution divides by is non-zero
C23_PartialPivoting ==
    (gauss # <<>> /\ gauss.res # <<>>) =>
        LET mat == gauss.mat
            N == mat.h
            res == gauss.res[1]
            final == ReducedUpTo(mat.m, N, 0, N)
        IN  /\ final = RowEchelon(mat.m, N, 0)
            /\ \A k \in 0..(N - 1) :
                  LET before == ReducedUpTo(mat.m, N, 0, k)
                      after == ReducedUpTo(mat.m, N, 0, k + 1)
                  IN  ~IsExc(before) =>
                          LET row == FindRowMax(before.m, N, k, k + 1, k,
                                                Abs2(before.m[k][k])).row_max
                          IN  /\ row \in k..(N - 1)
                              /\ \A r \in k..(N - 1) :
                                    ~RLess(Abs2(before.m[row][k]), Abs2(before.m[r][k]))
                              /\ IF ZeroColumn(before.m, N, k)
                                 THEN after = Throw("runtime_error", GaussFailed)
                                 ELSE /\ ~IsExc(after)
                                      /\ after.m[k] = before.m[row]
                                      /\ after.m[k][k] # CZero
            /\ IsExc(res) <=> IsExc(final)
            /\ IsExc(res) => res = Throw("runtime_error", GaussFailed)
            /\ ~IsExc(res) => \A i \in 0..(N - 1) : final.m[i][i] # CZero

\* a 3 x 4 system solved after the third row was swapped into the first
C23_Witness ==
    /\ Eliminated
    /\ gauss.mat.h = 3
    /\ gauss.mat.m[0][0] = COne
    /\ gauss.mat.m[2][0] = CReal(Rat(2))
    /\ RowEchelon(gauss.mat.m, 3, 0).m[0] = gauss.mat.m[2]

\* C24: after every successful solve(omega), voltage(comp) of every voltage
\* source equals the EMF lowered for that omega, V_dc when omega = 0 and
\* V_ac otherwise, wherever its terminals are, both on one non-ground label
\* included
C24_SourceVoltageIsEmf ==
    \A omega \in Omegas :
        SolvedAt(omega) =>
            \A ref \in DOMAIN m_circuit :
                IsVoltageSource(m_circuit[ref]) =>
                    voltage_ref(ref) = CReal(SourceValue(m_circuit[ref], omega))

\* the queries of circuit_solver
QueryOps == {"voltage", "current", "power", "get_solution", "get_solution_omega"}

\* C25: while no solve has succeeded (a fresh solver, or only failed solves
\* so far), voltage(), current(), power(), get_solution() and
\* get_solution_omega() signal an error: none of them reads the empty
\* solution or the empty omega, and none of them answers
C25_NoAnswerWithoutSolution ==
    (outcome.op \in QueryOps /\ m_solution = <<>>) =>
        outcome.status \in {"runtime_error", "out_of_range"}

\* C26: when update() returns normally, the node map covers the current
\* circuit; on a solver that held a solution, the stored omega is the one
\* stored before the call and the solution is the one computed for the
\* current circuit at that omega; on a solver that held none, the solution
\* stays absent and the stored omega and the lowered problem are unchanged
C26_UpdateRecomputes ==
    [][(Update /\ outcome'.status = "ok") =>
          /\ Labels(m_circuit) \subseteq DOMAIN m_node_map'
          /\ m_circuit' = m_circuit
          /\ m_solution_omega' = m_solution_omega
          /\ IF m_solution # <<>>
             THEN m_solution' = <<FreshSolve(m_solution_omega[1])>>
             ELSE m_solution' = <<>> /\ m_problem' = m_problem]_vars

\* update() has returned normally on a solver that held a solution and whose
\* circuit the caller had changed since
C26_Witness ==
    /\ outcome.op = "update"
    /\ outcome.status = "ok"
    /\ mutations = 1
    /\ m_solution # <<>>
    /\ m_solution = <<FreshSolve(m_solution_omega[1])>>
    /\ Labels(m_circuit) # {0}
    /\ NodeMapCovers

====
